---------------------------- MODULE Spec2Model ----------------------------
(***************************************************************************)
(* Model of GeneradorPDF (src/generador_pdf.py): generar_reporte and the   *)
(* string helpers it calls.                                                *)
(*                                                                         *)
(* A Python str is a sequence of one-character tokens.  Characters that    *)
(* are not ASCII are written by name: "e_acute" is U+00E9, "E_ACUTE" is    *)
(* U+00C9, "bullet" is U+2022 and "nl" is the line feed chr(10).           *)
(***************************************************************************)
EXTENDS Integers, Sequences, FiniteSets, TLC

(***************************************************************************)
(* Bounds of the model.                                                    *)
(***************************************************************************)
\* number of generar_reporte calls that share the output directory
NumLlamadas == 2
\* number of seconds the wall clock advances
MaxTics == 1
\* length of the exhaustively enumerated brand names
MaxLen == 3
\* length of the exhaustively enumerated list-field strings
MaxTexto == 3
\* length of the longest conflicting-marks list
MaxMarcas == 17

(***************************************************************************)
(* Program constants.                                                      *)
(***************************************************************************)
\* marca_limpia[:50]
LimiteMarca == 50
\* marcas[:15]
LimiteFilas == 15
\* len(titular) > 40
LimiteTitular == 40

(***************************************************************************)
(* Characters and str methods.                                             *)
(***************************************************************************)
Minusculas ==
  << "a","b","c","d","e","f","g","h","i","j","k","l","m",
     "n","o","p","q","r","s","t","u","v","w","x","y","z","e_acute" >>

Mayusculas ==
  << "A","B","C","D","E","F","G","H","I","J","K","L","M",
     "N","O","P","Q","R","S","T","U","V","W","X","Y","Z","E_ACUTE" >>

Digitos == << "0","1","2","3","4","5","6","7","8","9" >>

Rango(s) == { s[i] : i \in 1..Len(s) }

\* isalnum restricted to ASCII letters and digits
EsAlnumAscii(c) ==
  c \in (Rango(Minusculas) \cup Rango(Mayusculas) \cup Rango(Digitos))
         \ { "e_acute", "E_ACUTE" }

\* str.isalnum() of one character: Unicode letters and digits
EsAlnum(c) == c \in Rango(Minusculas) \cup Rango(Mayusculas) \cup Rango(Digitos)

\* str.upper() of one character
UpperChar(c) ==
  IF \E i \in 1..Len(Minusculas) : Minusculas[i] = c
    THEN Mayusculas[CHOOSE i \in 1..Len(Minusculas) : Minusculas[i] = c]
    ELSE c

\* str.upper()
Upper(s) == [ i \in 1..Len(s) |-> UpperChar(s[i]) ]

\* s[:n]
Prefijo(s, n) == SubSeq(s, 1, IF Len(s) < n THEN Len(s) ELSE n)

\* "".join(c for c in s if keep(c)), with keep given as a set of characters
RECURSIVE Filtrar(_, _)
Filtrar(s, keep) ==
  IF s = << >> THEN << >>
  ELSE IF Head(s) \in keep THEN << Head(s) >> \o Filtrar(Tail(s), keep)
  ELSE Filtrar(Tail(s), keep)

\* str.lstrip(chars)
RECURSIVE LStrip(_, _)
LStrip(s, chars) ==
  IF s # << >> /\ Head(s) \in chars THEN LStrip(Tail(s), chars) ELSE s

\* str.rstrip(chars)
RECURSIVE RStrip(_, _)
RStrip(s, chars) ==
  IF s # << >> /\ s[Len(s)] \in chars
    THEN RStrip(SubSeq(s, 1, Len(s) - 1), chars) ELSE s

\* str.strip(chars): both ends
Strip(s, chars) == RStrip(LStrip(s, chars), chars)

\* the whitespace characters of the model, stripped by str.strip()
Blancos == { " ", "nl" }

\* str.replace(a, b) for single characters
Replace(s, a, b) == [ i \in 1..Len(s) |-> IF s[i] = a THEN b ELSE s[i] ]

\* str.split('\n'): the segments between line feeds, empty ones included
RECURSIVE Split(_, _)
Split(s, sep) ==
  IF \E i \in 1..Len(s) : s[i] = sep
    THEN LET k == CHOOSE i \in 1..Len(s) :
                    s[i] = sep /\ \A j \in 1..(i - 1) : s[j] # sep
         IN  << SubSeq(s, 1, k - 1) >> \o Split(SubSeq(s, k + 1, Len(s)), sep)
    ELSE << s >>

(***************************************************************************)
(* Python values.  t is the type; s the characters of a str (the digits of *)
(* an int); l the items of a list of str; m the items of a list of         *)
(* conflicting marks.  A dict is a record over the keys the code reads; a   *)
(* key the dict does not hold has the value Ausente.                       *)
(***************************************************************************)
PyStr(s) == [ t |-> "str", s |-> s, l |-> << >>, m |-> << >> ]
PyInt(s) == [ t |-> "int", s |-> s, l |-> << >>, m |-> << >> ]
PyList(l) == [ t |-> "list", s |-> << >>, l |-> l, m |-> << >> ]
PyMarcas(m) == [ t |-> "list", s |-> << >>, l |-> << >>, m |-> m ]
PyNone == [ t |-> "none", s |-> << >>, l |-> << >>, m |-> << >> ]
Ausente == [ t |-> "absent", s |-> << >>, l |-> << >>, m |-> << >> ]

\* dict.get(key, default)
Get(d, key, default) == IF d[key].t = "absent" THEN default ELSE d[key]

\* the text an f-string interpolates for a value: str(v)
Texto(v) ==
  IF v.t = "none" THEN << "N","o","n","e" >> ELSE v.s

\* the literals of the source
TxtMarca == << "m","a","r","c","a" >>
TxtNA == << "N","/","A" >>
TxtCliente == << "C","l","i","e","n","t","e" >>
TxtMedio == << "M","E","D","I","O" >>
TxtBajo == << "B","A","J","O" >>
TxtAlto == << "A","L","T","O" >>
TxtNoEspecificado ==
  << "N","o"," ","e","s","p","e","c","i","f","i","c","a","d","o" >>
TxtElipsis == << ".",".","." >>

(***************************************************************************)
(* generar_reporte, lines 49-55: the file name.                            *)
(***************************************************************************)
\* the characters the generator expression keeps
Permitidos(s) == { c \in Rango(s) : EsAlnum(c) } \cup { " ", "-", "_" }

\* lines 49-50 without the replace of line 50
SanitizarSinReplace(s) ==
  Prefijo(Strip(Filtrar(s, Permitidos(s)), Blancos), LimiteMarca)

\* lines 49-50 on a str
Sanitizar(s) ==
  Prefijo(Replace(Strip(Filtrar(s, Permitidos(s)), Blancos), " ", "_"),
          LimiteMarca)

\* lead.get('marca', 'marca')
MarcaDeLead(lead) == Get(lead, "marca", PyStr(TxtMarca))

\* iterating a value that is no str raises TypeError
SanitizarFalla(lead) == MarcaDeLead(lead).t # "str"

MarcaLimpia(lead) == Sanitizar(MarcaDeLead(lead).s)

Dos(n) == << Digitos[(n \div 10) + 1], Digitos[(n % 10) + 1] >>

\* datetime.now().strftime('%Y%m%d_%H%M%S'), the clock counting the seconds
\* of one hour of one day
Timestamp(seg) ==
  << "2","0","2","6","1","1","0","3","_","2","3" >>
    \o Dos((seg \div 60) % 60) \o Dos(seg % 60)

\* the file name without its timestamp
FilenameSinTimestamp(marca_limpia, timestamp) ==
  << "r","e","p","o","r","t","e","_" >> \o marca_limpia
    \o << ".","p","d","f" >>

\* f"reporte_{marca_limpia}_{timestamp}.pdf"
Filename(marca_limpia, timestamp) ==
  << "r","e","p","o","r","t","e","_" >> \o marca_limpia \o << "_" >>
    \o timestamp \o << ".","p","d","f" >>

(***************************************************************************)
(* _generar_html, lines 107-113: list fields that arrive as one str.       *)
(***************************************************************************)
\* [g(f) for f in s.split('\n') if f.strip()], g stripping the characters
\* of marcadores from both ends and then whitespace
RECURSIVE LineasLimpias(_, _)
LineasLimpias(lineas, marcadores) ==
  IF lineas = << >> THEN << >>
  ELSE IF Strip(Head(lineas), Blancos) = << >>
    THEN LineasLimpias(Tail(lineas), marcadores)
  ELSE << Strip(Strip(Head(lineas), marcadores), Blancos) >>
         \o LineasLimpias(Tail(lineas), marcadores)

\* f.strip('\u2022 ')
MarcadoresFactor == { "bullet", " " }

\* r.strip('1234567890. ')
MarcadoresRecomendacion == Rango(Digitos) \cup { ".", " " }

\* lines 108-111
NormalizarFactores(v) ==
  IF v.t = "str"
    THEN PyList(LineasLimpias(Split(v.s, "nl"), MarcadoresFactor))
    ELSE v

\* lines 112-113
NormalizarRecomendaciones(v) ==
  IF v.t = "str"
    THEN PyList(LineasLimpias(Split(v.s, "nl"), MarcadoresRecomendacion))
    ELSE v

(***************************************************************************)
(* _generar_html, lines 115-120: the colour of the risk level.             *)
(***************************************************************************)
\* the colour looked up without .upper()
ColorSinUpper(nivel) ==
  IF nivel = TxtBajo THEN "#10b981"
  ELSE IF nivel = TxtMedio THEN "#f59e0b"
  ELSE IF nivel = TxtAlto THEN "#ef4444"
  ELSE "#6b7280"

ColorRiesgo(nivel) ==
  LET n == Upper(nivel)
  IN  IF n = TxtBajo THEN "#10b981"
      ELSE IF n = TxtMedio THEN "#f59e0b"
      ELSE IF n = TxtAlto THEN "#ef4444"
      ELSE "#6b7280"

(***************************************************************************)
(* _generar_tabla_marcas.                                                  *)
(***************************************************************************)
\* bool(v) of a value, as "not marcas" and "not items" compute it
Truthy(v) ==
  CASE v.t = "none" -> FALSE
    [] v.t = "str"  -> v.s # << >>
    [] v.t = "int"  -> v.s # << "0" >>
    [] OTHER        -> v.l # << >> \/ v.m # << >>

\* marca.get('titular', 'No especificado')
TitularDe(d) == Get(d, "titular", PyStr(TxtNoEspecificado))

\* marca.get(campo, 'N/A')
CampoDe(d, campo) == Get(d, campo, PyStr(TxtNA))

\* lines 211-212: len(titular) > 40 and the slice
Truncar(titular) ==
  IF Len(titular) > LimiteTitular
    THEN Prefijo(titular, LimiteTitular) \o TxtElipsis
    ELSE titular

\* the list without its slice
TodasLasMarcas(m) == m

\* marcas[:15]
PrimerasMarcas(m) == Prefijo(m, LimiteFilas)

\* one item raises: it has no .get, or its titular has no len()
FilaFalla(item) ==
  \/ item.t # "dict"
  \/ TitularDe(item.d).t \in { "none", "int" }

\* lines 203-223, one <tr>
Fila(i, item) ==
  [ num          |-> i,
    denominacion |-> Texto(CampoDe(item.d, "denominacion")),
    expediente   |-> Texto(CampoDe(item.d, "expediente")),
    titular      |-> Truncar(Texto(TitularDe(item.d))),
    clase        |-> Texto(CampoDe(item.d, "clase")),
    estado       |-> Texto(CampoDe(item.d, "estado")) ]

\* the function raises
TablaFalla(v) ==
  /\ Truthy(v)
  /\ \/ v.t \in { "str", "int" }
     \/ v.l # << >>
     \/ \E i \in 1..Len(PrimerasMarcas(v.m)) : FilaFalla(v.m[i])

\* what the function returns: the notice, or the table with its rows and
\* the len(marcas) its description quotes
GenerarTablaMarcas(v) ==
  IF ~Truthy(v)
    THEN [ aviso |-> TRUE, total |-> 0, filas |-> << >> ]
    ELSE [ aviso |-> FALSE, total |-> Len(v.m),
           filas |-> [ i \in 1..Len(PrimerasMarcas(v.m)) |->
                         Fila(i, PrimerasMarcas(v.m)[i]) ] ]

(***************************************************************************)
(* _generar_lista and _generar_recomendaciones.                            *)
(***************************************************************************)
\* len(items) raises on an int that is not 0
ListaFalla(v) == Truthy(v) /\ v.t = "int"

\* the <li> items of the section; none when the section is skipped
GenerarLista(v) == IF Truthy(v) THEN v.l ELSE << >>

\* the numbered <li> items
GenerarRecomendaciones(v) ==
  IF Truthy(v)
    THEN [ i \in 1..Len(v.l) |-> [ num |-> i, texto |-> v.l[i] ] ]
    ELSE << >>

(***************************************************************************)
(* _generar_html.                                                          *)
(***************************************************************************)
\* analisis.get('nivel_riesgo') without its default
NivelSinDefecto(analisis) == Get(analisis, "nivel_riesgo", PyNone)

NivelDe(analisis) == Get(analisis, "nivel_riesgo", PyStr(TxtMedio))
PrincipalDe(analisis) == Get(analisis, "analisis_principal", PyStr(<< >>))
RiesgoDe(analisis) ==
  NormalizarFactores(Get(analisis, "factores_riesgo", PyList(<< >>)))
FavorablesDe(analisis) ==
  NormalizarFactores(Get(analisis, "factores_favorables", PyList(<< >>)))
RecomendacionesDe(analisis) ==
  NormalizarRecomendaciones(Get(analisis, "recomendaciones", PyList(<< >>)))
ConflictivasDe(analisis) ==
  Get(analisis, "marcas_conflictivas", PyMarcas(<< >>))

\* an exception leaves _generar_html
HtmlFalla(lead, analisis) ==
  \/ NivelDe(analisis).t # "str"
  \/ PrincipalDe(analisis).t # "str"
  \/ TablaFalla(ConflictivasDe(analisis))
  \/ ListaFalla(RiesgoDe(analisis))
  \/ ListaFalla(FavorablesDe(analisis))
  \/ ListaFalla(RecomendacionesDe(analisis))

\* the document: the values interpolated into the template, by section
GenerarHtml(lead, analisis) ==
  [ marca           |-> Texto(Get(lead, "marca", PyStr(TxtNA))),
    cliente         |-> Texto(Get(lead, "nombre", PyStr(TxtCliente))),
    clase           |-> Texto(Get(lead, "clase_sugerida", PyStr(TxtNA))),
    viabilidad      |->
      Texto(Get(analisis, "porcentaje_viabilidad", PyInt(<< "0" >>))),
    nivel_riesgo    |-> NivelDe(analisis).s,
    color           |-> ColorRiesgo(NivelDe(analisis).s),
    principal       |-> Replace(PrincipalDe(analisis).s, "nl", "<br>"),
    tabla           |-> GenerarTablaMarcas(ConflictivasDe(analisis)),
    riesgo          |-> GenerarLista(RiesgoDe(analisis)),
    favorables      |-> GenerarLista(FavorablesDe(analisis)),
    recomendaciones |-> GenerarRecomendaciones(RecomendacionesDe(analisis)) ]

\* no document: composition has not run, or it raised
SinHtml ==
  [ marca |-> << >>, cliente |-> << >>, clase |-> << >>,
    viabilidad |-> << >>, nivel_riesgo |-> << >>, color |-> "",
    principal |-> << >>,
    tabla |-> [ aviso |-> FALSE, total |-> 0, filas |-> << >> ],
    riesgo |-> << >>, favorables |-> << >>, recomendaciones |-> << >> ]

(***************************************************************************)
(* The inputs the callers pass.                                            *)
(***************************************************************************)
LeadVacio == [ marca |-> Ausente, nombre |-> Ausente, clase_sugerida |-> Ausente ]

AnalisisVacio ==
  [ porcentaje_viabilidad |-> Ausente, nivel_riesgo |-> Ausente,
    analisis_principal |-> Ausente, factores_riesgo |-> Ausente,
    factores_favorables |-> Ausente, recomendaciones |-> Ausente,
    marcas_conflictivas |-> Ausente ]

MarcaVacia ==
  [ denominacion |-> Ausente, expediente |-> Ausente, titular |-> Ausente,
    clase |-> Ausente, estado |-> Ausente ]

\* every str over an alphabet, up to a length
Cadenas(alfabeto, n) == UNION { [ 1..k -> alfabeto ] : k \in 0..n }

Repetir(c, n) == [ i \in 1..n |-> c ]

TxtCafeSol == << "C","a","f","e_acute"," ","S","o","l","!" >>

LeadDeMarca(v) == [ LeadVacio EXCEPT !.marca = v ]

\* the example of the specification
LeadEjemplo ==
  [ marca |-> PyStr(TxtCafeSol),
    nombre |-> PyStr(<< "J","u","a","n" >>),
    clase_sugerida |-> PyStr(<< "3","0" >>) ]

AnalisisEjemplo ==
  [ AnalisisVacio EXCEPT
      !.porcentaje_viabilidad = PyInt(<< "7","2" >>),
      !.nivel_riesgo = PyStr(TxtAlto),
      !.marcas_conflictivas = PyMarcas(<< >>) ]

\* an analysis whose risk level is null
AnalisisSinNivel == [ AnalisisVacio EXCEPT !.nivel_riesgo = PyNone ]

\* brand names: every short one, and ones around the 50-character limit
MarcasCortas == Cadenas({ "a", "e_acute", "7", " ", "-", "_", "!" }, MaxLen)

MarcasLargas ==
  { pre \o Repetir(c, n) \o suf :
      pre \in { << >>, << " " >>, << "!" >>, << "a", " ", "!" >> },
      c \in { "a", " ", "_" },
      n \in (LimiteMarca - 1)..(LimiteMarca + 1),
      suf \in { << >>, << "b" >>, << " ", "b" >>, << "b", " " >> } }

EntradasMarcas ==
  { << LeadDeMarca(PyStr(s)), AnalisisVacio >> :
      s \in MarcasCortas \cup MarcasLargas \cup { TxtCafeSol } }
    \cup { << LeadVacio, AnalisisVacio >>,
           << LeadDeMarca(PyNone), AnalisisVacio >>,
           << LeadVacio, AnalisisSinNivel >> }

\* calls whose names collide and calls that fail in each step
EntradasLlamadas ==
  { << LeadEjemplo, AnalisisEjemplo >>,
    << LeadDeMarca(PyStr(<< "C","a","f","e_acute","_","S","o","l" >>)),
       AnalisisVacio >>,
    << LeadDeMarca(PyStr(<< "!","!","!" >>)), AnalisisVacio >>,
    << LeadDeMarca(PyNone), AnalisisVacio >>,
    << LeadVacio, AnalisisSinNivel >> }

\* a complete conflicting mark, told apart by its number
MarcaCompleta(i) ==
  [ denominacion |-> PyStr(<< "M" >> \o Dos(i)),
    expediente   |-> PyInt(Dos(i)),
    titular      |-> PyStr(<< "T" >> \o Dos(i)),
    clase        |-> PyStr(<< "3","0" >>),
    estado       |-> PyStr(<< "R" >>) ]

ClavesMarca == { "denominacion", "expediente", "titular", "clase", "estado" }

\* the mark with only the keys of K
MarcaCon(i, K) ==
  [ denominacion |-> IF "denominacion" \in K
                       THEN MarcaCompleta(i).denominacion ELSE Ausente,
    expediente   |-> IF "expediente" \in K
                       THEN MarcaCompleta(i).expediente ELSE Ausente,
    titular      |-> IF "titular" \in K
                       THEN MarcaCompleta(i).titular ELSE Ausente,
    clase        |-> IF "clase" \in K THEN MarcaCompleta(i).clase ELSE Ausente,
    estado       |-> IF "estado" \in K THEN MarcaCompleta(i).estado ELSE Ausente ]

Item(d) == [ t |-> "dict", d |-> d ]

\* a list item that is no dict
ItemNulo == [ t |-> "none", d |-> MarcaVacia ]

\* n complete marks, in order
ListaMarcas(n) == [ i \in 1..n |-> Item(MarcaCompleta(i)) ]

AnalisisCompleto ==
  [ porcentaje_viabilidad |-> PyInt(<< "7","2" >>),
    nivel_riesgo          |-> PyStr(TxtAlto),
    analisis_principal    |-> PyStr(<< "a","nl","b" >>),
    factores_riesgo       |-> PyList(<< << "x" >>, << "y" >> >>),
    factores_favorables   |-> PyStr(<< "bullet"," ","a","nl","bullet"," ","b" >>),
    recomendaciones       |-> PyList(<< << "r" >> >>),
    marcas_conflictivas   |-> PyMarcas(ListaMarcas(2)) ]

ClavesLead == { "marca", "nombre", "clase_sugerida" }

ClavesAnalisis ==
  { "porcentaje_viabilidad", "nivel_riesgo", "analisis_principal",
    "factores_riesgo", "factores_favorables", "recomendaciones",
    "marcas_conflictivas" }

\* the example lead with only the keys of K
LeadCon(K) ==
  [ marca          |-> IF "marca" \in K THEN LeadEjemplo.marca ELSE Ausente,
    nombre         |-> IF "nombre" \in K THEN LeadEjemplo.nombre ELSE Ausente,
    clase_sugerida |-> IF "clase_sugerida" \in K
                         THEN LeadEjemplo.clase_sugerida ELSE Ausente ]

\* the complete analysis with only the keys of K
AnalisisCon(K) ==
  [ porcentaje_viabilidad |-> IF "porcentaje_viabilidad" \in K
      THEN AnalisisCompleto.porcentaje_viabilidad ELSE Ausente,
    nivel_riesgo          |-> IF "nivel_riesgo" \in K
      THEN AnalisisCompleto.nivel_riesgo ELSE Ausente,
    analisis_principal    |-> IF "analisis_principal" \in K
      THEN AnalisisCompleto.analisis_principal ELSE Ausente,
    factores_riesgo       |-> IF "factores_riesgo" \in K
      THEN AnalisisCompleto.factores_riesgo ELSE Ausente,
    factores_favorables   |-> IF "factores_favorables" \in K
      THEN AnalisisCompleto.factores_favorables ELSE Ausente,
    recomendaciones       |-> IF "recomendaciones" \in K
      THEN AnalisisCompleto.recomendaciones ELSE Ausente,
    marcas_conflictivas   |-> IF "marcas_conflictivas" \in K
      THEN AnalisisCompleto.marcas_conflictivas ELSE Ausente ]

\* the lower-case letter of an upper-case one
LowerChar(c) ==
  IF \E i \in 1..Len(Mayusculas) : Mayusculas[i] = c
    THEN Minusculas[CHOOSE i \in 1..Len(Mayusculas) : Mayusculas[i] = c]
    ELSE c

\* every casing of an upper-case word
RECURSIVE Casos(_)
Casos(w) ==
  IF w = << >> THEN { << >> }
  ELSE { << c >> \o r : c \in { Head(w), LowerChar(Head(w)) },
                        r \in Casos(Tail(w)) }

\* risk levels the colour table does not hold
NivelesDesconocidos ==
  { << >>, << "B","A","J","A" >>, << " ","b","a","j","o" >>,
    << "L","O","W" >>, << "a","l","t","o","s" >>, << "A","L","T" >>,
    << "m","e","d","i","o","nl" >>, << "b","a","j","0" >> }

NivelesDeRiesgo ==
  Casos(TxtBajo) \cup Casos(TxtMedio) \cup Casos(TxtAlto)
    \cup NivelesDesconocidos

EntradasHtml ==
  { << LeadCon(K), AnalisisCon(J) >> :
      K \in SUBSET ClavesLead, J \in SUBSET ClavesAnalisis }
    \cup { << LeadEjemplo, [ AnalisisVacio EXCEPT !.nivel_riesgo = v ] >> :
             v \in { PyStr(n) : n \in NivelesDeRiesgo }
                      \cup { PyNone, PyInt(<< "1" >>) } }
    \cup { << LeadEjemplo,
              [ AnalisisEjemplo EXCEPT !.marcas_conflictivas = v ] >> :
             v \in { PyMarcas(ListaMarcas(n)) : n \in 0..MaxMarcas }
                      \cup { PyMarcas(<< Item(MarcaCon(1, K)) >>) :
                               K \in SUBSET ClavesMarca }
                      \cup { PyMarcas(<< Item(MarcaCompleta(1)),
                                         Item(MarcaCon(2, K)) >>) :
                               K \in SUBSET ClavesMarca }
                      \cup { PyMarcas(<< Item(
                                 [ MarcaCompleta(1) EXCEPT !.titular = t ]) >>) :
                               t \in { PyNone, PyInt(<< "7" >>),
                                       PyStr(Repetir("t", LimiteTitular)),
                                       PyStr(Repetir("t", LimiteTitular + 1)) } }
                      \cup { PyMarcas(<< ItemNulo >>), PyNone,
                             PyStr(<< "x" >>), PyInt(<< "3" >>) } }
    \cup { << LeadDeMarca(PyNone), AnalisisVacio >> }

\* list fields that arrive as one str, and as lists
TextosDeLista ==
  Cadenas({ "bullet", " ", "nl", "1", ".", "a" }, MaxTexto)
    \cup { << "bullet"," ","a","nl","bullet"," ","b" >>,
           << "1","."," ","a","nl","2","."," ","b" >>,
           << "1","."," ","c","l","a","s","e"," ","3","0","." >>,
           << "bullet"," ","a","nl","nl"," ","nl","bullet"," ","b","nl" >> }

EntradasListas ==
  { << LeadVacio, [ AnalisisVacio EXCEPT !.factores_riesgo = PyStr(s) ] >> :
      s \in TextosDeLista }
    \cup { << LeadVacio,
              [ AnalisisVacio EXCEPT !.factores_favorables = PyStr(s) ] >> :
             s \in TextosDeLista }
    \cup { << LeadVacio,
              [ AnalisisVacio EXCEPT !.recomendaciones = PyStr(s) ] >> :
             s \in TextosDeLista }
    \cup { << LeadVacio, [ AnalisisVacio EXCEPT !.recomendaciones = v ] >> :
             v \in { PyList(<< << "a" >>, << "1",".","b" >> >>), PyNone,
                     PyInt(<< "0" >>), PyInt(<< "5" >>) } }

Entradas(m) ==
  CASE m = "llamadas" -> EntradasLlamadas
    [] m = "marcas"   -> EntradasMarcas
    [] m = "html"     -> EntradasHtml
    [] m = "listas"   -> EntradasListas

(***************************************************************************)
(* generar_reporte as a state machine.  Each call runs lines 49-55, then   *)
(* _generar_html, then write_pdf, which opens the target path and writes   *)
(* the document into it; calls of different threads interleave between     *)
(* these steps and share the clock and the output directory.               *)
(***************************************************************************)
VARIABLES
  modo,          \* the family of inputs the callers draw from
  reloj,         \* the wall clock, in seconds
  pc,            \* pc[c]: where call c is
  lead,          \* lead[c], analisis[c]: the arguments of call c
  analisis,
  marca_limpia,  \* the locals of call c
  timestamp,
  filepath,
  html_content,
  retorno,       \* what call c returned, or that it raised
  falla,         \* the step of call c that raised, if any
  fs,            \* the files of pdf_folder
  aperturas      \* every <<call, path>> that write_pdf opened for writing

vars ==
  << modo, reloj, pc, lead, analisis, marca_limpia, timestamp, filepath,
     html_content, retorno, falla, fs, aperturas >>

Llamadas == 1..NumLlamadas

\* the calls that run under a family of inputs
LlamadasDe(m) == IF m = "llamadas" THEN Llamadas ELSE { 1 }

Pendiente == [ tipo |-> "pendiente", path |-> << >> ]

\* return filepath
Devolver(path) == [ tipo |-> "path", path |-> path ]

\* the exception leaves generar_reporte
Propagar(paso) == [ tipo |-> "excepcion", path |-> << >> ]

\* lines 78-82: except Exception logs and returns None
Capturar(paso) == [ tipo |-> "None", path |-> << >> ]

\* os.path.join(self.pdf_folder, filename)
Filepath(filename) == << "pdf_folder", "/" >> \o filename

Archivo(path) == CHOOSE f \in fs : f.path = path

Existe(path) == \E f \in fs : f.path = path

\* another call holds the path open for writing
EnEscritura(path, c) ==
  \E d \in Llamadas : d # c /\ pc[d] = "escribiendo" /\ filepath[d] = path

\* open(target, 'wb'): the file is created or truncated under its final name
Abrir(path, c) ==
  { f \in fs : f.path # path }
    \cup { [ path |-> path, estado |-> "parcial",
             mezcla |-> EnEscritura(path, c) ] }

\* the last byte is written and the file closed
Cerrar(path) ==
  { f \in fs : f.path # path }
    \cup { [ path |-> path,
             estado |-> IF Archivo(path).mezcla THEN "corrupto"
                        ELSE "completo",
             mezcla |-> Archivo(path).mezcla ] }

\* the call ends in the except clause
Fallar(c, paso) ==
  /\ pc' = [ pc EXCEPT ![c] = "fin" ]
  /\ falla' = [ falla EXCEPT ![c] = paso ]
  /\ retorno' = [ retorno EXCEPT ![c] = Capturar(paso) ]

\* lines 47-57: the call starts and computes the file name
Llamar(c) ==
  /\ c \in LlamadasDe(modo)
  /\ pc[c] = "libre"
  /\ \E e \in Entradas(modo) :
       /\ lead' = [ lead EXCEPT ![c] = e[1] ]
       /\ analisis' = [ analisis EXCEPT ![c] = e[2] ]
       /\ IF SanitizarFalla(e[1])
            THEN /\ Fallar(c, "sanitizar")
                 /\ UNCHANGED << marca_limpia, timestamp, filepath >>
            ELSE /\ marca_limpia' =
                      [ marca_limpia EXCEPT ![c] = MarcaLimpia(e[1]) ]
                 /\ timestamp' = [ timestamp EXCEPT ![c] = Timestamp(reloj) ]
                 /\ filepath' =
                      [ filepath EXCEPT ![c] =
                          Filepath(Filename(MarcaLimpia(e[1]),
                                            Timestamp(reloj))) ]
                 /\ pc' = [ pc EXCEPT ![c] = "html" ]
                 /\ UNCHANGED << falla, retorno >>
  /\ UNCHANGED << modo, reloj, html_content, fs, aperturas >>

\* line 60: html_content = self._generar_html(lead, analisis)
Componer(c) ==
  /\ pc[c] = "html"
  /\ IF HtmlFalla(lead[c], analisis[c])
       THEN /\ Fallar(c, "html")
            /\ UNCHANGED html_content
       ELSE /\ html_content' =
                 [ html_content EXCEPT ![c] = GenerarHtml(lead[c], analisis[c]) ]
            /\ pc' = [ pc EXCEPT ![c] = "render" ]
            /\ UNCHANGED << falla, retorno >>
  /\ UNCHANGED << modo, reloj, lead, analisis, marca_limpia, timestamp,
                  filepath, fs, aperturas >>

\* lines 63-73: the style sheet, the fonts or the layout raise before
\* write_pdf opens its target
RenderFalla(c) ==
  /\ pc[c] = "render"
  /\ Fallar(c, "render")
  /\ UNCHANGED << modo, reloj, lead, analisis, marca_limpia, timestamp,
                  filepath, html_content, fs, aperturas >>

\* lines 69-73: write_pdf opens filepath and starts to write
AbrirArchivo(c) ==
  /\ pc[c] = "render"
  /\ fs' = Abrir(filepath[c], c)
  /\ aperturas' = aperturas \cup { << c, filepath[c] >> }
  /\ pc' = [ pc EXCEPT ![c] = "escribiendo" ]
  /\ UNCHANGED << modo, reloj, lead, analisis, marca_limpia, timestamp,
                  filepath, html_content, retorno, falla >>

\* lines 69-73: write_pdf raises while it writes (disk full, I/O error)
EscribirFalla(c) ==
  /\ pc[c] = "escribiendo"
  /\ Fallar(c, "escritura")
  /\ UNCHANGED << modo, reloj, lead, analisis, marca_limpia, timestamp,
                  filepath, html_content, fs, aperturas >>

\* lines 69-76: write_pdf returns, and the call returns filepath
EscribirFin(c) ==
  /\ pc[c] = "escribiendo"
  /\ fs' = Cerrar(filepath[c])
  /\ retorno' = [ retorno EXCEPT ![c] = Devolver(filepath[c]) ]
  /\ pc' = [ pc EXCEPT ![c] = "fin" ]
  /\ UNCHANGED << modo, reloj, lead, analisis, marca_limpia, timestamp,
                  filepath, html_content, falla, aperturas >>

\* a second passes; the clock starts one second before a minute ends
Tic ==
  /\ reloj < 59 + MaxTics
  /\ reloj' = reloj + 1
  /\ UNCHANGED << modo, pc, lead, analisis, marca_limpia, timestamp,
                  filepath, html_content, retorno, falla, fs, aperturas >>

\* the state after GeneradorPDF(pdf_folder): an empty folder, no call yet
Inicio(m) ==
  /\ modo = m
  /\ reloj = 59
  /\ pc = [ c \in Llamadas |-> "libre" ]
  /\ lead = [ c \in Llamadas |-> LeadVacio ]
  /\ analisis = [ c \in Llamadas |-> AnalisisVacio ]
  /\ marca_limpia = [ c \in Llamadas |-> << >> ]
  /\ timestamp = [ c \in Llamadas |-> << >> ]
  /\ filepath = [ c \in Llamadas |-> << >> ]
  /\ html_content = [ c \in Llamadas |-> SinHtml ]
  /\ retorno = [ c \in Llamadas |-> Pendiente ]
  /\ falla = [ c \in Llamadas |-> "ninguna" ]
  /\ fs = { }
  /\ aperturas = { }

Next ==
  \/ \E c \in Llamadas : Llamar(c)
  \/ \E c \in Llamadas : Componer(c)
  \/ \E c \in Llamadas : RenderFalla(c)
  \/ \E c \in Llamadas : AbrirArchivo(c)
  \/ \E c \in Llamadas : EscribirFalla(c)
  \/ \E c \in Llamadas : EscribirFin(c)
  \/ Tic

\* concurrent calls on one output directory
Init == Inicio("llamadas")
Spec == Init /\ [][Next]_vars

\* one call, every brand name of the bounded set
InitSanitizar == Inicio("marcas")
SpecSanitizar == InitSanitizar /\ [][Next]_vars

\* one call, every combination of absent keys, risk levels, lists of marks
InitHtml == Inicio("html")
SpecHtml == InitHtml /\ [][Next]_vars

\* one call, list fields given as one str
InitListas == Inicio("listas")
SpecListas == InitListas /\ [][Next]_vars

(***************************************************************************)
(* Properties.                                                             *)
(***************************************************************************)
\* _generar_html returned for call c
Compuesto(c) ==
  \/ pc[c] \in { "render", "escribiendo" }
  \/ pc[c] = "fin" /\ falla[c] \in { "ninguna", "render", "escritura" }

\* the part of a path between 'pdf_folder/reporte_' and '_<timestamp>.pdf'
ParteMarca(path) == SubSeq(path, 11, Len(path) - 20)

\* some step of call c can be taken
PuedeAvanzar(c) ==
  ENABLED (Componer(c) \/ RenderFalla(c) \/ AbrirArchivo(c)
             \/ EscribirFalla(c) \/ EscribirFin(c))

\* C1: generar_reporte never raises past its boundary: a call that failed
\* while sanitizing, composing, rendering or writing has ended and returned
\* None; a call returns its path only when composition and write_pdf both
\* completed; a call that has started and not ended can always take a step.
C1_NuncaPropaga ==
  \A c \in Llamadas :
    /\ retorno[c].tipo \in { "pendiente", "None", "path" }
    /\ pc[c] = "fin" <=> retorno[c].tipo # "pendiente"
    /\ falla[c] # "ninguna" => pc[c] = "fin" /\ retorno[c].tipo = "None"
    /\ retorno[c].tipo = "path" =>
         /\ falla[c] = "ninguna"
         /\ ~SanitizarFalla(lead[c])
         /\ ~HtmlFalla(lead[c], analisis[c])
         /\ retorno[c].path = filepath[c]
         /\ << c, filepath[c] >> \in aperturas
    /\ pc[c] \notin { "libre", "fin" } => PuedeAvanzar(c)

\* one call failed while write_pdf wrote and another while sanitizing, and
\* both returned None
C1_Testigo ==
  \E c, d \in Llamadas :
    /\ falla[c] = "escritura" /\ retorno[c].tipo = "None"
    /\ falla[d] = "sanitizar" /\ retorno[d].tipo = "None"

\* C2: when a call has failed during rendering or writing, no half-written
\* file is left under its final name: the file at its path, unless another
\* call is writing it, is a completely rendered document.
C2_SinArchivoParcial ==
  \A c \in Llamadas :
    falla[c] \in { "render", "escritura" } /\ ~EnEscritura(filepath[c], c) =>
      \A f \in fs : f.path = filepath[c] => f.estado = "completo"

\* C3 as stated: no call opens for writing a path another call has opened.
C3_UnaSolaEscritura ==
  \A a, b \in aperturas : a[2] = b[2] => a[1] = b[1]

\* C3, amended: two calls write the same path only when they have the same
\* sanitized brand name and the same second-resolution timestamp.
C3_ColisionSoloPorNombre ==
  \A a, b \in aperturas :
    a[1] # b[1] /\ a[2] = b[2] =>
      /\ marca_limpia[a[1]] = marca_limpia[b[1]]
      /\ timestamp[a[1]] = timestamp[b[1]]

\* two calls with the same sanitized brand wrote in different seconds, to
\* different paths
C3_Testigo ==
  \E a, b \in aperturas :
    /\ a[1] # b[1]
    /\ marca_limpia[a[1]] = marca_limpia[b[1]]
    /\ timestamp[a[1]] # timestamp[b[1]]
    /\ a[2] # b[2]

\* the characters of s that are in keep, in order
Conservados(s) ==
  Replace(Filtrar(s, { c \in Rango(s) : EsAlnum(c) } \cup { " ", "-", "_" }),
          " ", "_")

\* t occurs in s as a run of consecutive characters
EsTramo(t, s) ==
  \E i \in 1..(Len(s) + 1) :
    i + Len(t) - 1 <= Len(s) /\ SubSeq(s, i, i + Len(t) - 1) = t

\* C4: for every brand name, the brand part of the file name holds only
\* alphanumeric characters, hyphens and underscores, is at most 50 long,
\* and is a run of the input's kept characters with each space written as
\* an underscore.
C4_NombreSaneado ==
  \A c \in Llamadas :
    pc[c] # "libre" /\ lead[c].marca.t = "str" =>
      LET parte == ParteMarca(filepath[c])
      IN  /\ falla[c] # "sanitizar"
          /\ parte = marca_limpia[c]
          /\ \A i \in 1..Len(parte) :
               EsAlnum(parte[i]) \/ parte[i] \in { "-", "_" }
          /\ Len(parte) <= 50
          /\ EsTramo(parte, Conservados(lead[c].marca.s))

\* a brand longer than 50 with a disallowed character and an inner space
\* was cut to 50 characters
C4_Testigo ==
  \E c \in Llamadas :
    /\ pc[c] # "libre"
    /\ lead[c].marca.t = "str"
    /\ Len(Conservados(lead[c].marca.s)) > 50
    /\ "!" \in Rango(lead[c].marca.s)
    /\ " " \in Rango(lead[c].marca.s)
    /\ Len(marca_limpia[c]) = 50
    /\ "_" \in Rango(marca_limpia[c])

\* C5: the brand part of a generated file name is never empty.
C5_MarcaNuncaVacia ==
  \A c \in Llamadas :
    pc[c] # "libre" /\ falla[c] # "sanitizar" =>
      ParteMarca(filepath[c]) # << >>
\* every value a record holds has the type the data model gives its key
BienTipado(l, a) ==
  /\ \A k \in ClavesLead : l[k].t \in { "absent", "str" }
  /\ a.porcentaje_viabilidad.t \in { "absent", "int" }
  /\ a.nivel_riesgo.t \in { "absent", "str" }
  /\ a.analisis_principal.t \in { "absent", "str" }
  /\ \A k \in { "factores_riesgo", "factores_favorables", "recomendaciones" } :
       a[k].t \in { "absent", "str", "list" } /\ a[k].m = << >>
  /\ a.marcas_conflictivas.t \in { "absent", "list" }
  /\ a.marcas_conflictivas.l = << >>
  /\ \A i \in 1..Len(a.marcas_conflictivas.m) :
       LET item == a.marcas_conflictivas.m[i]
       IN  /\ item.t = "dict"
           /\ \A k \in ClavesMarca \ { "expediente" } :
                item.d[k].t \in { "absent", "str" }
           /\ item.d.expediente.t \in { "absent", "str", "int" }

\* the fallback texts of the fields the records do not hold
Sustituidos(l, a, h) ==
  /\ l.marca.t = "absent" => h.marca = TxtNA
  /\ l.nombre.t = "absent" => h.cliente = TxtCliente
  /\ l.clase_sugerida.t = "absent" => h.clase = TxtNA
  /\ a.porcentaje_viabilidad.t = "absent" => h.viabilidad = << "0" >>
  /\ a.nivel_riesgo.t = "absent" =>
       h.nivel_riesgo = TxtMedio /\ h.color = "#f59e0b"
  /\ a.analisis_principal.t = "absent" => h.principal = << >>
  /\ a.factores_riesgo.t = "absent" => h.riesgo = << >>
  /\ a.factores_favorables.t = "absent" => h.favorables = << >>
  /\ a.recomendaciones.t = "absent" => h.recomendaciones = << >>
  /\ a.marcas_conflictivas.t = "absent" => h.tabla.aviso
  /\ \A i \in 1..Len(h.tabla.filas) :
       LET d == a.marcas_conflictivas.m[i].d
           f == h.tabla.filas[i]
       IN  /\ d.denominacion.t = "absent" => f.denominacion = TxtNA
           /\ d.expediente.t = "absent" => f.expediente = TxtNA
           /\ d.titular.t = "absent" => f.titular = TxtNoEspecificado
           /\ d.clase.t = "absent" => f.clase = TxtNA
           /\ d.estado.t = "absent" => f.estado = TxtNA

\* C6: report generation never fails because of missing optional fields:
\* with any subset of the keys absent from the lead, the analysis and the
\* conflicting marks, neither sanitization nor composition raises, each
\* absent field shows its fallback text, and the call returns its path
\* unless write_pdf itself failed.
C6_CamposAusentes ==
  \A c \in Llamadas :
    pc[c] # "libre" /\ BienTipado(lead[c], analisis[c]) =>
      /\ falla[c] \notin { "sanitizar", "html" }
      /\ pc[c] # "html" =>
           Sustituidos(lead[c], analisis[c], html_content[c])
      /\ pc[c] = "fin" /\ falla[c] = "ninguna" => retorno[c].tipo = "path"
      /\ pc[c] = "fin" /\ retorno[c].tipo = "None" =>
           falla[c] \in { "render", "escritura" }

\* a call with both records empty returned its path
C6_Testigo ==
  \E c \in Llamadas :
    /\ lead[c] = LeadVacio
    /\ analisis[c] = AnalisisVacio
    /\ pc[c] = "fin"
    /\ retorno[c].tipo = "path"
    /\ html_content[c].tabla.aviso
    /\ html_content[c].nivel_riesgo = TxtMedio

\* a line without its leading bullet or number marker
SinMarcador(linea) ==
  LET t == Strip(linea, Blancos)
      d == LStrip(t, Rango(Digitos))
  IN  IF t # << >> /\ Head(t) = "bullet" THEN Strip(Tail(t), Blancos)
      ELSE IF d # t /\ d # << >> /\ Head(d) = "." THEN Strip(Tail(d), Blancos)
      ELSE t

\* one item per non-empty line, in line order
RECURSIVE ItemsEsperados(_)
ItemsEsperados(lineas) ==
  IF lineas = << >> THEN << >>
  ELSE IF Strip(Head(lineas), Blancos) = << >>
    THEN ItemsEsperados(Tail(lineas))
  ELSE << SinMarcador(Head(lineas)) >> \o ItemsEsperados(Tail(lineas))

\* every non-empty line of s has text besides its marker
ConTexto(s) ==
  \A i \in 1..Len(Split(s, "nl")) :
    Strip(Split(s, "nl")[i], Blancos) # << >> =>
      SinMarcador(Split(s, "nl")[i]) # << >>

\* the items a list section of the document shows for the str s
ItemsCorrectos(items, s) ==
  /\ items = ItemsEsperados(Split(s, "nl"))
  /\ \A i \in 1..Len(items) : items[i] # << >>

\* C7: a list field that arrives as one str, each non-empty line holding
\* text besides its marker, is rendered as exactly one item per non-empty
\* line, in line order, each the line without its leading bullet or number
\* marker and surrounding whitespace, the rest of the line kept (trailing
\* digits and a final period included); no item is empty.
C7_ListasNormalizadas ==
  \A c \in Llamadas :
    Compuesto(c) =>
      LET a == analisis[c]
          h == html_content[c]
          textos(items) == [ i \in 1..Len(items) |-> items[i].texto ]
      IN  /\ a.factores_riesgo.t = "str" /\ ConTexto(a.factores_riesgo.s) =>
               ItemsCorrectos(h.riesgo, a.factores_riesgo.s)
          /\ a.factores_favorables.t = "str"
                /\ ConTexto(a.factores_favorables.s) =>
               ItemsCorrectos(h.favorables, a.factores_favorables.s)
          /\ a.recomendaciones.t = "str" /\ ConTexto(a.recomendaciones.s) =>
               ItemsCorrectos(textos(h.recomendaciones), a.recomendaciones.s)

\* a bulleted str of two lines was rendered as its two items
C7_Testigo ==
  \E c \in Llamadas :
    /\ Compuesto(c)
    /\ analisis[c].factores_riesgo
         = PyStr(<< "bullet"," ","a","nl","bullet"," ","b" >>)
    /\ html_content[c].riesgo = << << "a" >>, << "b" >> >>

\* C8 as stated: the lead brand "Cafe Sol!" (with e acute) gives the file
\* reporte_Caf_Sol_<timestamp>.pdf.
C8_CafSol ==
  \A c \in Llamadas :
    lead[c].marca = PyStr(TxtCafeSol) /\ retorno[c].tipo = "path" =>
      retorno[c].path =
        Filepath(<< "r","e","p","o","r","t","e","_",
                    "C","a","f","_","S","o","l","_" >>
                   \o timestamp[c] \o << ".","p","d","f" >>)

\* C8, amended: the lead brand "Cafe Sol!" (with e acute) gives the file
\* reporte_Caf<e acute>_Sol_<timestamp>.pdf: the '!' is removed, the space
\* becomes an underscore and the alphanumeric e acute is kept.
C8_CafeSol ==
  \A c \in Llamadas :
    lead[c].marca = PyStr(TxtCafeSol) /\ retorno[c].tipo = "path" =>
      retorno[c].path =
        Filepath(<< "r","e","p","o","r","t","e","_",
                    "C","a","f","e_acute","_","S","o","l","_" >>
                   \o timestamp[c] \o << ".","p","d","f" >>)

\* the example call returned its path, with the risk in red and the notice
\* that no conflicting marks were found
C8_Testigo ==
  \E c \in Llamadas :
    /\ lead[c] = LeadEjemplo
    /\ analisis[c] = AnalisisEjemplo
    /\ retorno[c].tipo = "path"
    /\ html_content[c].color = "#ef4444"
    /\ html_content[c].tabla.aviso

\* a str in lower case, letter by letter
Lower(s) == [ i \in 1..Len(s) |-> LowerChar(s[i]) ]

\* C9: the risk colour is keyed by the risk level whatever its casing:
\* 'bajo' gives #10b981, 'medio' #f59e0b, 'alto' #ef4444, every other text
\* the neutral #6b7280, and no text value makes composition fail.
C9_ColorPorNivel ==
  \A c \in Llamadas :
    pc[c] # "libre" /\ analisis[c].nivel_riesgo.t = "str" =>
      LET n == Lower(analisis[c].nivel_riesgo.s)
      IN  /\ BienTipado(lead[c], analisis[c]) => falla[c] # "html"
          /\ Compuesto(c) =>
               html_content[c].color =
                 CASE n = << "b","a","j","o" >>     -> "#10b981"
                   [] n = << "m","e","d","i","o" >> -> "#f59e0b"
                   [] n = << "a","l","t","o" >>     -> "#ef4444"
                   [] OTHER                         -> "#6b7280"

\* composition ran with a mixed-case 'bAjO' and gave the LOW colour
C9_Testigo ==
  \E c \in Llamadas :
    /\ Compuesto(c)
    /\ analisis[c].nivel_riesgo = PyStr(<< "b","A","j","O" >>)
    /\ html_content[c].color = "#10b981"

\* the smaller of two numbers
Min(a, b) == IF a < b THEN a ELSE b

\* C10: for a list of n conflicting marks the table has exactly min(n, 15)
\* rows, the first 15 entries in input order, numbered from 1; for n = 0,
\* or no list at all, the 'none found' notice is rendered and no table.
C10_FilasDeLaTabla ==
  \A c \in Llamadas :
    Compuesto(c) /\ analisis[c].marcas_conflictivas.t \in { "absent", "list" } =>
      LET m == analisis[c].marcas_conflictivas.m
          t == html_content[c].tabla
      IN  /\ t.aviso <=> Len(m) = 0
          /\ Len(t.filas) = Min(Len(m), 15)
          /\ \A i \in 1..Len(t.filas) :
               /\ t.filas[i].num = i
               /\ t.filas[i] = Fila(i, m[i])

\* a list of more than 15 marks was rendered as 15 rows
C10_Testigo ==
  \E c \in Llamadas :
    /\ Compuesto(c)
    /\ Len(analisis[c].marcas_conflictivas.m) > 15
    /\ Len(html_content[c].tabla.filas) = 15
    /\ html_content[c].tabla.filas[15].denominacion
         = << "M","1","5" >>

=============================================================================
